---- MODULE Spec2Model ----
(***************************************************************************)
(* Live dictation pipeline of src/live.py: the audio callback and the      *)
(* AudioProcessor (pause-based segmentation), transcription_queue, the     *)
(* transcription worker with _transcribe_audio, and main's start / stop /  *)
(* finalize / drain sequence.                                              *)
(*                                                                         *)
(* Units.  The clock is in milliseconds.  The input stream is opened with  *)
(* blocksize=CHUNK_SIZE, so every callback delivers one chunk of           *)
(* CHUNK_SIZE samples; audio_buffer is kept as the sequence of the chunk   *)
(* numbers it holds, each standing for CHUNK_SIZE consecutive samples.     *)
(* A text is a sequence of tokens: SP is a whitespace character, a         *)
(* positive number is a word.                                              *)
(***************************************************************************)
EXTENDS Integers, Sequences, FiniteSets, TLC

\* ---------------------------------------------------------------- constants
SAMPLE_RATE == 16000
CHUNK_SIZE == 512
PAUSE_THRESHOLD_MS == 600
MIN_DURATION_MS == 500
\* VAD_THRESHOLD in percent, and the energy threshold 0.01 in thousandths
VAD_THRESHOLD_PCT == 60
ENERGY_THRESHOLD_MILLI == 10

\* ------------------------------------------------------------------- bounds
\* chunks the audio device delivers in one session
MaxChunks == 20
\* chunks delivered in a session of the dictation scenario (Dictation)
PipeChunks == 58
\* chunks from one spoken word to the next in that scenario
WordPeriod == 21
\* times the wall clock runs ahead of the audio (late or dropped callbacks)
MaxStalls == 1
\* length of one such stall, in milliseconds
StallMs == 600

VARIABLES
    \* module-level state of live.py
    recording, finalizing, speech_detected_in_session, accumulated_text,
    detected_language,
    \* transcription_queue: the items waiting, and Queue's unfinished_tasks
    transcription_queue, unfinished_tasks,
    \* AudioProcessor
    audio_buffer, chunk_buffer, speech_detected, silence_start,
    \* environment: wall clock, chunks delivered, stalls, --lang argument
    clock, n_chunks, stalls, argv_lang,
    \* control state of main, of the audio callback and of the worker
    pc_main, pc_cb, pc_w,
    \* worker locals: the item taken from the queue, the language and prompt
    \* of the running engine call, the temporary WAV files on disk
    cur, cmd, temp_files,
    \* output: clipboard content and the fragments pasted so far
    clipboard, pasted,
    \* history: every item put on the queue, every task_done, every engine
    \* result, and what the segmenter has been given (chunks, session end)
    enq_log, done_log, proc_log, seg,
    \* AudioProcessor.vad_model, the state of the thread that loads it, and
    \* (history) what _apply_vad was given and answered for the last chunk
    vad_model, vad_load, vad_last,
    \* the pynput key listener
    key_listener

vars == <<recording, finalizing, speech_detected_in_session, accumulated_text,
          detected_language, transcription_queue, unfinished_tasks,
          audio_buffer, chunk_buffer, speech_detected, silence_start,
          clock, n_chunks, stalls, argv_lang, pc_main, pc_cb, pc_w,
          cur, cmd, temp_files, clipboard, pasted,
          enq_log, done_log, proc_log, seg,
          vad_model, vad_load, vad_last, key_listener>>

globalVars == <<recording, finalizing, speech_detected_in_session>>
textVars == <<accumulated_text, detected_language, clipboard, pasted>>
queueVars == <<transcription_queue, unfinished_tasks>>
procVars == <<audio_buffer, chunk_buffer, speech_detected, silence_start>>
envVars == <<clock, n_chunks, stalls, argv_lang>>
workerVars == <<cur, cmd, temp_files>>
histVars == <<enq_log, done_log, proc_log, seg>>
vadVars == <<vad_model, vad_load, vad_last>>

\* ------------------------------------------------------------------ values
NONE == -1
SP == 0
NoItem == [seq |-> 0, samples |-> <<>>]
NoCmd == [language |-> "", prompt |-> <<>>, has_prompt |-> FALSE]
NoVad == [n |-> 0, loaded |-> FALSE, energy |-> NONE, prob |-> NONE,
          raised |-> FALSE, after_raise |-> FALSE, has_speech |-> FALSE]

Min(S) == CHOOSE x \in S : \A y \in S : x <= y
Max(S) == CHOOSE x \in S : \A y \in S : x >= y
\* ---------------------------------------------------------------- texts
\* str.strip(): leading and trailing whitespace removed
\* (faulty variant: nothing is removed)
StripNothing(s) == s
Strip(s) ==
    LET idx == {i \in 1..Len(s) : s[i] # SP}
    IN IF idx = {} THEN <<>> ELSE SubSeq(s, Min(idx), Max(idx))

\* str.split(): the words, whitespace runs being separators
Split(s) == SelectSeq(s, LAMBDA c : c # SP)

\* truth value of a Python str
Truthy(s) == Len(s) > 0

\* accumulated_text after a non-empty result text
\* (faulty variant: the separating space is forgotten)
AppendTextNoSep(acc, text) == acc \o text
AppendText(acc, text) ==
    IF Truthy(acc) THEN acc \o <<SP>> \o text ELSE text

\* the fragment copied to the clipboard and pasted, acc being the
\* transcript after the append
\* (faulty variant: the fragment is always the bare text)
TextToPasteBare(acc, text) == text
TextToPaste(acc, text) ==
    IF Len(Split(acc)) > Len(Split(text)) THEN <<SP>> \o text ELSE text

\* what the external engine can answer for the utterance with number k:
\* raised (subprocess.run raises), or the exit status and the standard
\* output; io tells whether pyperclip.copy or the osascript call raises
\* afterwards.  The words of the output are the utterance's number.
EngineResults(k) ==
    [raised : {FALSE}, rc : {0}, stdout : {<<SP>>, <<SP, k>>}, io : {"ok"}]
    \cup [raised : {FALSE}, rc : {1}, stdout : {<<SP, k>>}, io : {"ok"}]
    \cup [raised : {TRUE}, rc : {1}, stdout : {<<>>}, io : {"ok"}]

\* the same with more outputs (empty, several words, trailing newline) and
\* with failures of the clipboard and of the paste
DictationResults(k) ==
    EngineResults(k)
    \cup [raised : {FALSE}, rc : {0}, stdout : {<<>>, <<k, SP, SP, k, SP>>},
          io : {"ok"}]
    \cup [raised : {FALSE}, rc : {1}, stdout : {<<>>}, io : {"ok"}]
    \cup [raised : {FALSE}, rc : {0}, stdout : {<<SP, k>>},
          io : {"copy_raises", "paste_raises"}]

\* ------------------------------------------------------------ segmenter
\* milliseconds of audio per chunk (CHUNK_DURATION)
ChunkMs == (CHUNK_SIZE * 1000) \div SAMPLE_RATE

NumSamples(buf) == Len(buf) * CHUNK_SIZE

\* duration < 0.5, duration being len(audio_array) / SAMPLE_RATE
\* (faulty variant: the duration test is dropped)
TooShortNever(n) == FALSE
TooShort(n) == n * 1000 < MIN_DURATION_MS * SAMPLE_RATE

\* the pause test of _process_chunk
PauseDetected(ss, now, sd, buf) ==
    /\ ss # NONE /\ ss # 0
    /\ now - ss >= PAUSE_THRESHOLD_MS
    /\ sd
    /\ Len(buf) > 0

\* silence_start after a chunk with classification has_speech
\* (faulty variant: a speech chunk does not clear silence_start)
NextSilenceStartKept(ss, sd, has_speech, now) ==
    IF ~has_speech /\ sd /\ ss = NONE THEN now ELSE ss
\* (faulty variant: every silent chunk restarts the timer)
NextSilenceStartRestarted(ss, sd, has_speech, now) ==
    IF has_speech THEN NONE ELSE IF sd THEN now ELSE ss
NextSilenceStart(ss, sd, has_speech, now) ==
    IF has_speech THEN NONE
    ELSE IF sd /\ ss = NONE THEN now ELSE ss

\* _trigger_transcription: "reset" (no speech in the session), "none"
\* (empty buffer), "short" (discarded) or "put"
TriggerOutcome(buf, sdis) ==
    IF ~sdis THEN "reset"
    ELSE IF Len(buf) = 0 THEN "none"
    ELSE IF TooShort(NumSamples(buf)) THEN "short"
    ELSE "put"

\* finalize() puts the buffer on the queue
\* (faulty variants: the session flag is not tested; only the session
\* flag is tested)
FinalizeEnqueuesAnySession(buf, sdis) ==
    Len(buf) > 0 /\ ~TooShort(NumSamples(buf))
FinalizeEnqueuesAlways(buf, sdis) == sdis
FinalizeEnqueues(buf, sdis) ==
    /\ Len(buf) > 0 /\ sdis
    /\ ~TooShort(NumSamples(buf))

\* Queue.put: the item joins the tail, unfinished_tasks is incremented
NewItem(buf) == [seq |-> Len(enq_log) + 1, samples |-> buf]

\* ------------------------------------------------- segmenter history
\* What the segmenter has been given so far.  spoken: some chunk was
\* classified as speech.  The speech-then-pause cycles of the chunk
\* sequence: a run starts after the previous cycle's end, contains speech
\* (has_speech), holds run chunks, and is ended by a pause of at least the
\* threshold (sil is the time of the first silent chunk after the last
\* speech) or by the session end; count is the number of ended cycles that
\* hold at least 0.5 s of audio.  closed: finalize() has run, on a buffer
\* of fin_len chunks; late: a chunk was processed after that.
SegInit == [spoken |-> FALSE, count |-> 0, run |-> 0, has_speech |-> FALSE,
            sil |-> NONE, closed |-> FALSE, fin_len |-> NONE, late |-> FALSE]
SegChunk(c, has_speech, now) ==
    LET run == c.run + 1
        hs == c.has_speech \/ has_speech
        sil == IF has_speech THEN NONE
               ELSE IF c.has_speech /\ c.sil = NONE THEN now ELSE c.sil
        ended == hs /\ sil # NONE /\ now - sil >= PAUSE_THRESHOLD_MS
        long == run * CHUNK_SIZE * 1000 >= MIN_DURATION_MS * SAMPLE_RATE
    IN IF ended
       THEN [c EXCEPT !.count = IF long THEN @ + 1 ELSE @, !.run = 0,
                      !.has_speech = FALSE, !.sil = NONE, !.late = c.closed,
                      !.spoken = @ \/ has_speech]
       ELSE [c EXCEPT !.run = run, !.has_speech = hs, !.sil = sil,
                      !.late = c.closed, !.spoken = @ \/ has_speech]
SegEnd(c, buf) ==
    LET long == c.run * CHUNK_SIZE * 1000 >= MIN_DURATION_MS * SAMPLE_RATE
    IN [c EXCEPT !.count = IF c.has_speech /\ long THEN @ + 1 ELSE @,
                 !.run = 0, !.has_speech = FALSE, !.sil = NONE,
                 !.closed = TRUE, !.fin_len = Len(buf)]

\* ------------------------------------------------------------------ Init
\* the module-level state of live.py before main() runs
InitArgv(langs) ==
    /\ recording = FALSE /\ finalizing = FALSE
    /\ speech_detected_in_session = FALSE
    /\ accumulated_text = <<>> /\ detected_language = "None"
    /\ transcription_queue = <<>> /\ unfinished_tasks = 0
    /\ audio_buffer = <<>> /\ chunk_buffer = <<>>
    /\ speech_detected = FALSE /\ silence_start = NONE
    /\ clock = 1 /\ n_chunks = 0 /\ stalls = 0
    /\ argv_lang \in langs
    /\ pc_main = "start" /\ pc_cb = "off" /\ pc_w = "off"
    /\ cur = NoItem /\ cmd = NoCmd /\ temp_files = {}
    /\ clipboard = <<>> /\ pasted = <<>>
    /\ enq_log = <<>> /\ done_log = <<>> /\ proc_log = <<>>
    /\ seg = SegInit
    /\ vad_model = "None" /\ vad_load = "off" /\ vad_last = NoVad
    /\ key_listener = "new"

Init == InitArgv({"auto"})

\* ------------------------------------------------------------------ main
\* main() up to the recording loop: the state is reset, the stream, the
\* key listener and the worker thread are started
MainStart ==
    /\ pc_main = "start"
    /\ recording' = TRUE
    /\ speech_detected_in_session' = FALSE
    /\ accumulated_text' = <<>>
    /\ detected_language' = "None"
    /\ audio_buffer' = <<>> /\ chunk_buffer' = <<>>
    /\ speech_detected' = FALSE /\ silence_start' = NONE
    /\ pc_cb' = "idle" /\ pc_w' = "get" /\ pc_main' = "loop"
    /\ UNCHANGED <<finalizing, clipboard, pasted, queueVars, envVars,
                   workerVars, histVars>>
    /\ key_listener' = "running" /\ vad_load' = "loading"
    /\ UNCHANGED <<vad_model, vad_last>>

\* sd.InputStream(...) or audio_stream.start() raises: no thread has been
\* started, the except clause logs the error and the finally block starts
\* with recording = False
MainStartFails ==
    /\ pc_main = "start"
    /\ recording' = FALSE
    /\ speech_detected_in_session' = FALSE
    /\ accumulated_text' = <<>>
    /\ detected_language' = "None"
    /\ audio_buffer' = <<>> /\ chunk_buffer' = <<>>
    /\ speech_detected' = FALSE /\ silence_start' = NONE
    /\ pc_main' = "mark"
    /\ UNCHANGED <<finalizing, clipboard, pasted, queueVars, envVars,
                   workerVars, histVars, pc_cb, pc_w>>
    /\ UNCHANGED <<vadVars, key_listener>>

\* on_key_press(Key.ctrl), on the listener's thread: the flag is cleared
\* if it is set, and nothing happens otherwise
\* (faulty variant: the key toggles the flag)
OnKeyPressToggle(rec) == ~rec
OnKeyPress(rec) == IF rec THEN FALSE ELSE rec
StopKey ==
    /\ key_listener = "running"
    /\ recording' = OnKeyPress(recording)
    /\ UNCHANGED <<finalizing, speech_detected_in_session, textVars,
                   queueVars, procVars, envVars, workerVars, histVars,
                   pc_main, pc_cb, pc_w, vadVars, key_listener>>

\* `while recording` sees the flag cleared; the finally block starts with
\* recording = False, which changes nothing then
MainLoopExit ==
    /\ pc_main = "loop" /\ ~recording
    /\ pc_main' = "mark"
    /\ UNCHANGED <<globalVars, textVars, queueVars, procVars, envVars,
                   workerVars, histVars, pc_cb, pc_w>>
    /\ UNCHANGED <<vadVars, key_listener>>

\* KeyboardInterrupt while in the loop: the except clause logs it and the
\* finally block starts with recording = False
MainInterrupt ==
    /\ pc_main = "loop"
    /\ recording
    /\ recording' = FALSE
    /\ pc_main' = "mark"
    /\ UNCHANGED <<finalizing, speech_detected_in_session, textVars,
                   queueVars, procVars, envVars, workerVars, histVars,
                   pc_cb, pc_w>>
    /\ UNCHANGED <<vadVars, key_listener>>

\* finalizing = True
MainSetFinalizing ==
    /\ pc_main = "mark"
    /\ finalizing' = TRUE
    /\ pc_main' = "finalize"
    /\ UNCHANGED <<recording, speech_detected_in_session, textVars,
                   queueVars, procVars, envVars, workerVars, histVars,
                   pc_cb, pc_w>>
    /\ UNCHANGED <<vadVars, key_listener>>

\* audio_processor.finalize()
MainFinalize ==
    /\ pc_main = "finalize"
    /\ IF FinalizeEnqueues(audio_buffer, speech_detected_in_session)
       THEN /\ transcription_queue' =
                   Append(transcription_queue, NewItem(audio_buffer))
            /\ unfinished_tasks' = unfinished_tasks + 1
            /\ enq_log' = Append(enq_log, NewItem(audio_buffer))
       ELSE UNCHANGED <<queueVars, enq_log>>
    /\ seg' = SegEnd(seg, audio_buffer)
    /\ pc_main' = "join"
    /\ UNCHANGED <<globalVars, textVars, procVars, envVars, workerVars,
                   done_log, proc_log, pc_cb, pc_w>>
    /\ UNCHANGED <<vadVars, key_listener>>

\* transcription_queue.join() returns: no unfinished task
\* (faulty variant: join only waits for the queue to be empty)
JoinMayReturnWhenEmpty == Len(transcription_queue) = 0
JoinMayReturn == unfinished_tasks = 0
MainJoin ==
    /\ pc_main = "join"
    /\ JoinMayReturn
    /\ pc_main' = "unmark"
    /\ UNCHANGED <<globalVars, textVars, queueVars, procVars, envVars,
                   workerVars, histVars, pc_cb, pc_w>>
    /\ UNCHANGED <<vadVars, key_listener>>

\* finalizing = False
MainClearFinalizing ==
    /\ pc_main = "unmark"
    /\ finalizing' = FALSE
    /\ pc_main' = "publish"
    /\ UNCHANGED <<recording, speech_detected_in_session, textVars,
                   queueVars, procVars, envVars, workerVars, histVars,
                   pc_cb, pc_w>>
    /\ UNCHANGED <<vadVars, key_listener>>

\* key_listener.stop(), then the full text goes to the clipboard
MainPublish ==
    /\ pc_main = "publish"
    /\ clipboard' = IF Truthy(accumulated_text) /\ Truthy(Strip(accumulated_text))
                    THEN accumulated_text ELSE clipboard
    /\ pc_main' = "done"
    /\ UNCHANGED <<globalVars, accumulated_text, detected_language, pasted,
                   queueVars, procVars, envVars, workerVars, histVars,
                   pc_cb, pc_w>>
    /\ key_listener' = "stopped"
    /\ UNCHANGED vadVars

\* pyperclip.copy(accumulated_text) raises: the call is in the finally
\* block, outside any try, so the exception leaves main() uncaught
MainPublishFails ==
    /\ pc_main = "publish"
    /\ Truthy(accumulated_text) /\ Truthy(Strip(accumulated_text))
    /\ pc_main' = "crashed"
    /\ UNCHANGED <<globalVars, textVars, queueVars, procVars, envVars,
                   workerVars, histVars, pc_cb, pc_w>>
    /\ key_listener' = "stopped"
    /\ UNCHANGED vadVars

\* main() has not returned: when it returns (or an exception leaves it)
\* the process exits, and the daemon worker thread and the audio stream
\* end with it
Running == pc_main \notin {"done", "crashed"}

\* -------------------------------------------------------- audio callback
\* audio_callback: the device delivers the next chunk while the flag is
\* set (with the flag cleared the callback returns without any effect)
CbEnter(limit) ==
    /\ pc_cb = "idle"
    /\ recording
    /\ n_chunks < limit
    /\ n_chunks' = n_chunks + 1
    /\ clock' = clock + ChunkMs
    /\ pc_cb' = "body"
    /\ UNCHANGED <<globalVars, textVars, queueVars, procVars, stalls,
                   argv_lang, workerVars, histVars, pc_main, pc_w>>
    /\ UNCHANGED <<vadVars, key_listener>>

\* the wall clock runs ahead of the audio: a callback is late.  The clock
\* is only ever compared with silence_start, so a stall is modelled while
\* a silence is being timed
Stall ==
    /\ pc_cb = "idle"
    /\ recording
    /\ silence_start # NONE
    /\ stalls < MaxStalls
    /\ stalls' = stalls + 1
    /\ clock' = clock + StallMs
    /\ UNCHANGED <<globalVars, textVars, queueVars, procVars, n_chunks,
                   argv_lang, workerVars, histVars, pc_main, pc_cb, pc_w>>
    /\ UNCHANGED <<vadVars, key_listener>>

\* the input device is lost while the stream is open: the callback is not
\* invoked any more.  Nothing in live.py observes the stream (no
\* finished_callback, no read of audio_stream.active, the callback's
\* status argument is ignored), so no other state changes
DeviceLost ==
    /\ pc_main = "loop"
    /\ recording
    /\ pc_cb = "idle"
    /\ pc_cb' = "lost"
    /\ UNCHANGED <<globalVars, textVars, queueVars, procVars, envVars,
                   workerVars, histVars, pc_main, pc_w>>
    /\ UNCHANGED <<vadVars, key_listener>>

\* add_audio, _process_chunk and _trigger_transcription for the chunk
\* delivered; has_speech is the answer of _apply_vad
CbBody(has_speech) ==
    /\ Running
    /\ pc_cb = "body"
    /\ LET buf == Append(audio_buffer, n_chunks)
           now == clock
           sdis == speech_detected_in_session \/ has_speech
           sd == speech_detected \/ has_speech
           ss == NextSilenceStart(silence_start, speech_detected,
                                  has_speech, now)
           out == IF PauseDetected(ss, now, sd, buf)
                  THEN TriggerOutcome(buf, sdis) ELSE "no_pause"
       IN /\ speech_detected_in_session' = sdis
          /\ chunk_buffer' = <<>>
          /\ IF out \in {"reset", "short", "put"}
             THEN /\ audio_buffer' = <<>>
                  /\ speech_detected' = FALSE
                  /\ silence_start' = NONE
             ELSE /\ audio_buffer' = buf
                  /\ speech_detected' = sd
                  /\ silence_start' = ss
          /\ IF out = "put"
             THEN /\ transcription_queue' =
                         Append(transcription_queue, NewItem(buf))
                  /\ unfinished_tasks' = unfinished_tasks + 1
                  /\ enq_log' = Append(enq_log, NewItem(buf))
             ELSE UNCHANGED <<queueVars, enq_log>>
          /\ seg' = SegChunk(seg, has_speech, now)
    /\ pc_cb' = "idle"
    /\ UNCHANGED <<recording, finalizing, textVars, envVars, workerVars,
                   done_log, proc_log, pc_main, pc_w>>
    /\ UNCHANGED <<vad_model, vad_load, key_listener>>

\* the same with the answer of _apply_vad given, whatever produced it
CbChunk(has_speech) == CbBody(has_speech) /\ UNCHANGED vad_last

\* ---------------------------------------------------------------- worker
\* Queue.get: the head of the queue
\* (faulty variant: a LIFO queue)
QueueGetLast(q) == [item |-> q[Len(q)], rest |-> SubSeq(q, 1, Len(q) - 1)]
\* (faulty variant: the item is returned but stays in the queue)
QueueGetKept(q) == [item |-> Head(q), rest |-> q]
QueueGet(q) == [item |-> Head(q), rest |-> Tail(q)]

\* transcription_queue.get(timeout=1.0) returns an item
\* (faulty variant: the next item is taken without waiting for the engine
\* call of the previous one to return)
WorkerGetEarly ==
    /\ Running
    /\ pc_w \in {"get", "engine"}
    /\ Len(transcription_queue) > 0
    /\ cur' = QueueGet(transcription_queue).item
    /\ transcription_queue' = QueueGet(transcription_queue).rest
    /\ pc_w' = "transcribe"
    /\ UNCHANGED <<globalVars, textVars, unfinished_tasks, procVars, envVars,
                   cmd, temp_files, histVars, pc_main, pc_cb>>
    /\ UNCHANGED <<vadVars, key_listener>>
WorkerGet ==
    /\ Running
    /\ pc_w = "get"
    /\ Len(transcription_queue) > 0
    /\ cur' = QueueGet(transcription_queue).item
    /\ transcription_queue' = QueueGet(transcription_queue).rest
    /\ pc_w' = "transcribe"
    /\ UNCHANGED <<globalVars, textVars, unfinished_tasks, procVars, envVars,
                   cmd, temp_files, histVars, pc_main, pc_cb>>
    /\ UNCHANGED <<vadVars, key_listener>>

\* the get times out on an empty queue: queue.Empty is raised, and the
\* handler reads `not recording and finalizing and
\* transcription_queue.empty()` one operand after the other; the timeout
\* and the first read are one step (a timeout can fire at any moment)
WorkerTimeout ==
    /\ Running
    /\ pc_w = "get"
    /\ Len(transcription_queue) = 0
    /\ pc_w' = IF ~recording THEN "chk_finalizing" ELSE "get"
    /\ UNCHANGED <<globalVars, textVars, queueVars, procVars, envVars,
                   workerVars, histVars, pc_main, pc_cb>>
    /\ UNCHANGED <<vadVars, key_listener>>

WorkerChkFinalizing ==
    /\ Running
    /\ pc_w = "chk_finalizing"
    /\ pc_w' = IF finalizing THEN "chk_empty" ELSE "get"
    /\ UNCHANGED <<globalVars, textVars, queueVars, procVars, envVars,
                   workerVars, histVars, pc_main, pc_cb>>
    /\ UNCHANGED <<vadVars, key_listener>>

WorkerChkEmpty ==
    /\ Running
    /\ pc_w = "chk_empty"
    /\ pc_w' = IF Len(transcription_queue) = 0 THEN "exited" ELSE "get"
    /\ UNCHANGED <<globalVars, textVars, queueVars, procVars, envVars,
                   workerVars, histVars, pc_main, pc_cb>>
    /\ UNCHANGED <<vadVars, key_listener>>

\* words joined by single spaces
RECURSIVE JoinSp(_)
JoinSp(ws) ==
    IF Len(ws) = 0 THEN <<>>
    ELSE IF Len(ws) = 1 THEN <<ws[1]>>
    ELSE <<ws[1], SP>> \o JoinSp(Tail(ws))

\* the --prompt context: the last MAX_CONTEXT_WORDS words
\* (faulty variant: the whole transcript, however long)
MAX_CONTEXT_WORDS == 100
ContextWhole(acc) == acc
Context(acc) ==
    LET words == Split(acc)
    IN IF Len(words) > MAX_CONTEXT_WORDS
       THEN JoinSp(SubSeq(words, Len(words) - MAX_CONTEXT_WORDS + 1, Len(words)))
       ELSE acc

\* the language of an invocation: the stored one, else the --lang= argument
\* (argv "auto": no such argument)
ChooseLanguage(detected, argv) ==
    IF detected # "None" THEN detected ELSE argv

\* _transcribe_audio up to subprocess.run: the WAV file is written, the
\* language and the prompt are chosen; write_ok = FALSE: sf.write raises
EngineStart(write_ok) ==
    /\ Running
    /\ pc_w = "transcribe"
    /\ temp_files' = temp_files \cup {cur.seq}
    /\ IF write_ok
       THEN LET language == ChooseLanguage(detected_language, argv_lang)
                use == Truthy(accumulated_text) /\ Truthy(Strip(accumulated_text))
            IN /\ detected_language' =
                      IF language # "auto" THEN language ELSE detected_language
               /\ cmd' = [language |-> language,
                          prompt |-> IF use THEN Context(accumulated_text) ELSE <<>>,
                          has_prompt |-> use]
               /\ pc_w' = "engine"
       ELSE /\ pc_w' = "task_done"
            /\ UNCHANGED <<detected_language, cmd>>
    /\ UNCHANGED <<globalVars, accumulated_text, clipboard, pasted, queueVars,
                   procVars, envVars, cur, histVars, pc_main, pc_cb>>
    /\ UNCHANGED <<vadVars, key_listener>>

\* subprocess.run returns (or raises) and the rest of _transcribe_audio
EngineFinish(res) ==
    /\ Running
    /\ pc_w = "engine"
    /\ LET text == Strip(res.stdout)
           acc == AppendText(accumulated_text, text)
           frag == TextToPaste(acc, text)
       IN IF res.raised
          THEN UNCHANGED <<accumulated_text, clipboard, pasted, temp_files>>
          ELSE IF Truthy(text)
          THEN /\ accumulated_text' = acc
               /\ clipboard' = IF res.io = "copy_raises" THEN clipboard ELSE frag
               /\ pasted' = IF res.io = "ok" THEN Append(pasted, frag) ELSE pasted
               /\ temp_files' = IF res.io = "ok" THEN temp_files \ {cur.seq}
                                ELSE temp_files
          ELSE /\ temp_files' = temp_files \ {cur.seq}
               /\ UNCHANGED <<accumulated_text, clipboard, pasted>>
    /\ proc_log' = Append(proc_log, [seq |-> cur.seq, raised |-> res.raised,
                                     rc |-> res.rc, stdout |-> res.stdout,
                                     io |-> res.io,
                                     language |-> cmd.language])
    /\ cmd' = NoCmd
    /\ pc_w' = "task_done"
    /\ UNCHANGED <<globalVars, detected_language, queueVars, procVars, envVars,
                   cur, enq_log, done_log, seg, pc_main, pc_cb>>
    /\ UNCHANGED <<vadVars, key_listener>>

\* transcription_queue.task_done()
WorkerTaskDone ==
    /\ Running
    /\ pc_w = "task_done"
    /\ unfinished_tasks' = unfinished_tasks - 1
    /\ done_log' = Append(done_log, cur.seq)
    /\ cur' = NoItem
    /\ pc_w' = "get"
    /\ UNCHANGED <<globalVars, textVars, transcription_queue, procVars,
                   envVars, cmd, temp_files, enq_log, proc_log, seg,
                   pc_main, pc_cb>>
    /\ UNCHANGED <<vadVars, key_listener>>

\* ------------------------------------------------------------------ Next
Next ==
    \/ MainStart
    \/ MainStartFails
    \/ StopKey
    \/ MainLoopExit
    \/ MainInterrupt
    \/ MainSetFinalizing
    \/ MainFinalize
    \/ MainJoin
    \/ MainClearFinalizing
    \/ MainPublish
    \/ MainPublishFails
    \/ CbEnter(MaxChunks)
    \/ DeviceLost
    \/ Stall
    \/ \E has_speech \in BOOLEAN : CbChunk(has_speech)
    \/ WorkerGet
    \/ WorkerTimeout
    \/ WorkerChkFinalizing
    \/ WorkerChkEmpty
    \/ EngineStart(TRUE)
    \/ \E res \in EngineResults(cur.seq) : EngineFinish(res)
    \/ WorkerTaskDone

Spec == Init /\ [][Next]_vars

\* ------------------------------------------------------------ dictation
\* The same program with a fixed speaker: one chunk of speech every
\* WordPeriod chunks, silence in between, no stall of the clock.  The
\* pause after each word ends an utterance, so a session holds several.
Dictation(n) == n % WordPeriod = 1

PipeNext ==
    \/ MainStart
    \/ MainStartFails
    \/ StopKey
    \/ MainLoopExit
    \/ MainInterrupt
    \/ MainSetFinalizing
    \/ MainFinalize
    \/ MainJoin
    \/ MainClearFinalizing
    \/ MainPublish
    \/ MainPublishFails
    \/ CbEnter(PipeChunks)
    \/ CbChunk(Dictation(n_chunks))
    \/ WorkerGet
    \/ WorkerTimeout
    \/ WorkerChkFinalizing
    \/ WorkerChkEmpty
    \/ \E write_ok \in BOOLEAN : EngineStart(write_ok)
    \/ \E res \in DictationResults(cur.seq) : EngineFinish(res)
    \/ WorkerTaskDone

PipeSpec == InitArgv({"auto", "en"}) /\ [][PipeNext]_vars

\* ------------------------------------------------------------- scenarios
\* Two speech runs of SpeechChunks chunks (1.0 s at 32 ms a chunk) with a
\* silence in between: LongSilence chunks (0.7 s, above the pause
\* threshold) or ShortSilence chunks (0.3 s, below it); nothing follows,
\* and the clock does not stall.  The session may be stopped at any time.
SpeechChunks == 32
LongSilence == 22
ShortSilence == 10
TwoRuns(n, silence) == n <= SpeechChunks \/ n > SpeechChunks + silence
SplitChunks == 2 * SpeechChunks + LongSilence
MergeChunks == 2 * SpeechChunks + ShortSilence

ScenarioNext(silence) ==
    \/ MainStart
    \/ MainStartFails
    \/ StopKey
    \/ MainLoopExit
    \/ MainInterrupt
    \/ MainSetFinalizing
    \/ MainFinalize
    \/ MainJoin
    \/ MainClearFinalizing
    \/ MainPublish
    \/ MainPublishFails
    \/ CbEnter(2 * SpeechChunks + silence)
    \/ CbChunk(TwoRuns(n_chunks, silence))
    \/ WorkerGet
    \/ WorkerTimeout
    \/ WorkerChkFinalizing
    \/ WorkerChkEmpty
    \/ EngineStart(TRUE)
    \/ \E res \in EngineResults(cur.seq) : EngineFinish(res)
    \/ WorkerTaskDone

SplitNext == ScenarioNext(LongSilence)
SplitSpec == Init /\ [][SplitNext]_vars

MergeNext == ScenarioNext(ShortSilence)
MergeSpec == Init /\ [][MergeNext]_vars

\* ------------------------------------------------ voice activity model
\* _apply_vad for a chunk of RMS energy `energy` (thousandths) on which
\* the Silero model, if it is consulted, answers the speech probability
\* `prob` (percent) or raises
\* (faulty variant: the energy test is used whenever the model is there)
ApplyVadEnergyOnly(model, energy, prob, raises) ==
    energy > ENERGY_THRESHOLD_MILLI
\* (faulty variant: the energy is taken of the samples scaled to [-1, 1])
ApplyVadScaled(model, energy, prob, raises) ==
    IF model = "None" \/ raises
    THEN energy \div 32768 > ENERGY_THRESHOLD_MILLI
    ELSE prob > VAD_THRESHOLD_PCT
\* (faulty variant: a chunk on which the model raises counts as silence)
ApplyVadNoFallback(model, energy, prob, raises) ==
    IF model = "None" THEN energy > ENERGY_THRESHOLD_MILLI
    ELSE ~raises /\ prob > VAD_THRESHOLD_PCT
ApplyVad(model, energy, prob, raises) ==
    IF model = "None" THEN energy > ENERGY_THRESHOLD_MILLI
    ELSE IF raises THEN energy > ENERGY_THRESHOLD_MILLI
    ELSE prob > VAD_THRESHOLD_PCT

\* chunks delivered in a session of VadSpec, and the inputs of _apply_vad:
\* the energy is the RMS of the int16 samples as they are (not scaled to
\* [-1, 1]), so it is 0 for a chunk of zeros and at least sqrt(1/512),
\* 44 thousandths, for any other chunk
VadChunks == 17
Energies == {0, 44}
Probs == {VAD_THRESHOLD_PCT, VAD_THRESHOLD_PCT + 1}

\* _init_vad on its thread: torch.hub.load returns the model ...
VadLoaded ==
    /\ Running
    /\ vad_load = "loading"
    /\ vad_model' = "loaded"
    /\ vad_load' = "loaded"
    /\ UNCHANGED <<globalVars, textVars, queueVars, procVars, envVars,
                   workerVars, histVars, pc_main, pc_cb, pc_w, vad_last,
                   key_listener>>

\* ... or raises: the handler logs and sets vad_model = None
VadLoadFails ==
    /\ Running
    /\ vad_load = "loading"
    /\ vad_model' = "None"
    /\ vad_load' = "failed"
    /\ UNCHANGED <<globalVars, textVars, queueVars, procVars, envVars,
                   workerVars, histVars, pc_main, pc_cb, pc_w, vad_last,
                   key_listener>>

\* the callback's chunk classified by _apply_vad; the energy is computed
\* only without a model or after it raised, the model is consulted only
\* when it is there
CbVad(energy, prob, raises) ==
    /\ CbBody(ApplyVad(vad_model, energy, prob, raises))
    /\ vad_last' =
          [n |-> n_chunks,
           loaded |-> vad_model # "None",
           energy |-> IF vad_model = "None" \/ raises THEN energy ELSE NONE,
           prob |-> IF vad_model # "None" /\ ~raises THEN prob ELSE NONE,
           raised |-> vad_model # "None" /\ raises,
           after_raise |-> vad_last.raised,
           has_speech |-> ApplyVad(vad_model, energy, prob, raises)]

VadNext ==
    \/ MainStart
    \/ MainStartFails
    \/ StopKey
    \/ MainLoopExit
    \/ MainInterrupt
    \/ MainSetFinalizing
    \/ MainFinalize
    \/ MainJoin
    \/ MainClearFinalizing
    \/ MainPublish
    \/ MainPublishFails
    \/ VadLoaded
    \/ VadLoadFails
    \/ CbEnter(VadChunks)
    \/ \E energy \in Energies, prob \in Probs, raises \in BOOLEAN :
          CbVad(energy, prob, raises)
    \/ WorkerGet
    \/ WorkerTimeout
    \/ WorkerChkFinalizing
    \/ WorkerChkEmpty
    \/ EngineStart(TRUE)
    \/ \E res \in EngineResults(cur.seq) : EngineFinish(res)
    \/ WorkerTaskDone

VadSpec == Init /\ [][VadNext]_vars

\* ------------------------------------------------------- long dictation
\* The fixed speaker of the dictation with an engine that returns long
\* texts: nothing, PromptWords words, or PromptWords + 1 words with a
\* double space, so that the transcript passes MAX_CONTEXT_WORDS words
\* before the last invocation.
PromptWords == 50
LongResults(k) ==
    [raised : {FALSE}, rc : {0}, io : {"ok"},
     stdout : {<<SP>>, JoinSp([i \in 1..PromptWords |-> k]),
               <<k, SP, SP>> \o JoinSp([i \in 1..PromptWords |-> k])}]

PromptNext ==
    \/ MainStart
    \/ MainStartFails
    \/ StopKey
    \/ MainLoopExit
    \/ MainInterrupt
    \/ MainSetFinalizing
    \/ MainFinalize
    \/ MainJoin
    \/ MainClearFinalizing
    \/ MainPublish
    \/ MainPublishFails
    \/ CbEnter(PipeChunks)
    \/ CbChunk(Dictation(n_chunks))
    \/ WorkerGet
    \/ WorkerTimeout
    \/ WorkerChkFinalizing
    \/ WorkerChkEmpty
    \/ EngineStart(TRUE)
    \/ \E res \in LongResults(cur.seq) : EngineFinish(res)
    \/ WorkerTaskDone

PromptSpec == Init /\ [][PromptNext]_vars

\* =============================================================== claims
\* helpers of the claims, written independently of the operators above
RECURSIVE Flatten(_)
Flatten(ss) == IF Len(ss) = 0 THEN <<>> ELSE Head(ss) \o Flatten(Tail(ss))

RECURSIVE DropLeadingSp(_)
DropLeadingSp(s) ==
    IF Len(s) > 0 /\ s[1] = SP THEN DropLeadingSp(Tail(s)) ELSE s
RECURSIVE DropTrailingSp(_)
DropTrailingSp(s) ==
    IF Len(s) > 0 /\ s[Len(s)] = SP
    THEN DropTrailingSp(SubSeq(s, 1, Len(s) - 1)) ELSE s
Trimmed(s) == DropTrailingSp(DropLeadingSp(s))

WordsOf(s) == SelectSeq(s, LAMBDA c : c # SP)
NonDecreasing(ws) == \A i \in 1..(Len(ws) - 1) : ws[i] <= ws[i + 1]
IsPrefix(s, t) == Len(s) <= Len(t) /\ SubSeq(t, 1, Len(s)) = s
HalfSecond(item) ==
    Len(item.samples) * CHUNK_SIZE * 1000 >= MIN_DURATION_MS * SAMPLE_RATE
TimesDone(k) == Cardinality({j \in 1..Len(done_log) : done_log[j] = k})

\* the chunks a..b, in order
ChunkRange(a, b) == [i \in 1..(b - a + 1) |-> a + i - 1]

\* the texts of the given engine results, in order, joined by one space
RECURSIVE JoinedTexts(_)
JoinedTexts(log) ==
    IF Len(log) = 0 THEN <<>>
    ELSE LET before == JoinedTexts(SubSeq(log, 1, Len(log) - 1))
             text == Trimmed(log[Len(log)].stdout)
         IN IF Len(text) = 0 THEN before
            ELSE IF Len(before) = 0 THEN text
            ELSE before \o <<SP>> \o text

\* C1: the texts appended to the transcript and the fragments pasted appear
\* in the order in which their utterances were put on the queue (every
\* word is the number its utterance got when it was put).
C1_EmittedInQueueOrder ==
    /\ \A i \in 1..Len(enq_log) : enq_log[i].seq = i
    /\ NonDecreasing(WordsOf(accumulated_text))
    /\ NonDecreasing(WordsOf(Flatten(pasted)))
    /\ \A i \in 1..Len(WordsOf(accumulated_text)) :
           WordsOf(accumulated_text)[i] \in 1..Len(enq_log)

C1_Witness ==
    /\ Len(pasted) >= 2
    /\ \E i, j \in 1..Len(accumulated_text) :
           i < j /\ accumulated_text[i] = 1 /\ accumulated_text[j] = 3

\* C2: once main waits for the drain with work unfinished, the worker
\* is still there to finish it, so that the drain can return: main is
\* never blocked in join() with unfinished tasks after the worker has
\* left its loop.
C2_DrainCanReturn ==
    (pc_main = "join" /\ unfinished_tasks > 0) => pc_w # "exited"

\* C3: join() returns only when every utterance put on the queue so far
\* has been processed: task_done was called exactly once for it, after
\* _transcribe_audio returned, and the worker holds no item.
C3_AllProcessed ==
    /\ \A i \in 1..Len(enq_log) : TimesDone(i) = 1
    /\ Len(transcription_queue) = 0
    /\ cur = NoItem
C3_JoinReturnsWhenProcessed ==
    [][(pc_main = "join" /\ pc_main' = "unmark") => C3_AllProcessed]_vars

C3_Witness ==
    /\ pc_main = "unmark"
    /\ Len(enq_log) >= 1
    /\ Len(proc_log) >= 1

\* C4: every utterance ever put on the queue holds at least 0.5 s of
\* audio (8000 samples at 16 kHz).
C4_MinimumDuration ==
    \A i \in 1..Len(enq_log) : HalfSecond(enq_log[i])

\* an utterance of the smallest admissible size (16 chunks) was put
\* after a shorter buffer had been discarded
C4_Witness ==
    /\ Len(enq_log) >= 1
    /\ Len(enq_log[1].samples) * CHUNK_SIZE < SAMPLE_RATE \div 2 + CHUNK_SIZE
    /\ enq_log[1].samples[1] > 1

\* C5: after the session end the number of utterances put on the queue
\* equals the number of speech-then-pause cycles of at least 0.5 s in
\* the chunk sequence.
C5_UtterancesEqualCycles ==
    (seg.closed /\ ~seg.late /\ pc_cb = "idle")
        => Len(enq_log) = seg.count

\* C6: while no chunk of the session has been classified as speech,
\* nothing has been put on the queue and the transcript is empty.
C6_SilenceYieldsNothing ==
    ~seg.spoken => (Len(enq_log) = 0 /\ Len(accumulated_text) = 0)

\* a silent session of at least 0.5 s has ended
C6_Witness ==
    /\ pc_main = "done"
    /\ ~seg.spoken
    /\ seg.fin_len # NONE
    /\ seg.fin_len * CHUNK_SIZE * 1000 >= MIN_DURATION_MS * SAMPLE_RATE

\* C7: no captured sample appears in more than one utterance put on the
\* queue.
C7_NoSampleTwice ==
    \A i, j \in 1..Len(enq_log) :
        i < j => \A a \in 1..Len(enq_log[i].samples) :
                    \A b \in 1..Len(enq_log[j].samples) :
                        enq_log[i].samples[a] # enq_log[j].samples[b]

\* C8: the transcript consists of the texts of the utterances whose
\* engine invocation succeeded (exit status 0, no exception), in order;
\* a failed invocation contributes nothing.
C8_Succeeded(log) == SelectSeq(log, LAMBDA r : ~r.raised /\ r.rc = 0)
C8_FailedContributesNothing ==
    accumulated_text = JoinedTexts(C8_Succeeded(proc_log))

\* C9: the transcript equals the non-empty stripped engine outputs of
\* the utterances processed so far, in processing order, joined by
\* exactly one space, and every step only extends it.
C9_TranscriptIsJoinedTexts ==
    /\ [](accumulated_text = JoinedTexts(proc_log))
    /\ [][IsPrefix(accumulated_text, accumulated_text')]_vars

C9_Witness ==
    /\ Len(proc_log) = 3
    /\ proc_log[1].stdout = <<SP, 1>>
    /\ Len(Trimmed(proc_log[2].stdout)) = 0
    /\ proc_log[3].stdout = <<3, SP, SP, 3, SP>>
    /\ accumulated_text = <<1, SP, 3, SP, SP, 3>>

\* C10: finalize() on an empty speech buffer puts nothing on the queue
\* and leaves the segmenter state and the queue as they were.
C10_FinalizeEmptyIsNoOp ==
    [][(pc_main = "finalize" /\ pc_main' = "join" /\ Len(audio_buffer) = 0)
         => UNCHANGED <<transcription_queue, unfinished_tasks, enq_log,
                        audio_buffer, chunk_buffer, speech_detected,
                        silence_start, speech_detected_in_session>>]_vars

\* finalize() has run on an empty buffer in a session with speech
C10_Witness ==
    /\ pc_main = "join"
    /\ seg.fin_len = 0
    /\ seg.spoken

\* C11: finalize() is idempotent: on the state the first call leaves
\* (finalize() writes nothing but the queue, so the buffer and the session
\* flag are as before), a second call puts nothing on the queue.
C11_FinalizeIdempotent ==
    [][(pc_main = "finalize" /\ pc_main' = "join")
         => ~FinalizeEnqueues(audio_buffer', speech_detected_in_session')]_vars

\* C12: from the recording loop the session ends only along recording =
\* False, finalize(), join(): the main thread moves through the finally
\* block in order, finalize() runs with the flag cleared, join() returns
\* only with no unfinished task, a session that has ended has been
\* finalized, and main is never blocked before it waits in join().
C12_Path ==
    {<<"start", "loop">>, <<"start", "mark">>, <<"loop", "mark">>,
     <<"mark", "finalize">>, <<"finalize", "join">>, <<"join", "unmark">>,
     <<"unmark", "publish">>, <<"publish", "done">>, <<"publish", "crashed">>}
C12_StopReachesFinalizeAndDrain ==
    /\ [][pc_main' # pc_main => <<pc_main, pc_main'>> \in C12_Path]_vars
    /\ [][(recording /\ ~recording') => pc_main \in {"start", "loop"}]_vars
    /\ [][(pc_main = "finalize" /\ pc_main' = "join")
            => (~recording /\ ~seg.closed /\ seg'.closed)]_vars
    /\ [][(pc_main = "join" /\ pc_main' # "join") => unfinished_tasks = 0]_vars
    /\ [](pc_main \in {"join", "unmark", "publish", "done", "crashed"}
            => (seg.closed /\ ~recording))
    /\ []((pc_main = "loop" /\ ~recording) => ENABLED MainLoopExit)
    /\ [](pc_main = "mark" => ENABLED MainSetFinalizing)
    /\ [](pc_main = "finalize" => ENABLED MainFinalize)

\* a session stopped with a spoken buffer of at least 0.5 s has ended
\* after the flushed utterance was transcribed
C12_Witness ==
    /\ pc_main = "done"
    /\ seg.spoken
    /\ seg.fin_len # NONE
    /\ seg.fin_len * CHUNK_SIZE * 1000 >= MIN_DURATION_MS * SAMPLE_RATE
    /\ Len(enq_log) = 1
    /\ Len(done_log) = 1

\* C13: a failure of the input device puts the session on the stop path.
\* For a device lost while recording this means that the program itself,
\* without the user, goes on to clear the flag, finalize and drain: with
\* the device lost and the flag still set, some step of the program's own
\* threads is possible (the stop key and the interrupt are the user's),
\* here with a spoken buffer of at least 0.5 s waiting to be flushed.
C13_ProgramStep ==
    \/ MainLoopExit
    \/ MainSetFinalizing
    \/ MainFinalize
    \/ MainJoin
    \/ MainClearFinalizing
    \/ MainPublish
    \/ MainPublishFails
    \/ \E has_speech \in BOOLEAN : CbChunk(has_speech)
    \/ WorkerGet
    \/ WorkerTimeout
    \/ WorkerChkFinalizing
    \/ WorkerChkEmpty
    \/ EngineStart(TRUE)
    \/ \E res \in EngineResults(cur.seq) : EngineFinish(res)
    \/ WorkerTaskDone
C13_DeviceLossStopsSession ==
    (pc_cb = "lost" /\ recording /\ seg.spoken /\ ~TooShort(NumSamples(audio_buffer)))
        => ENABLED <<C13_ProgramStep>>_vars

\* C14: a failure of the clipboard copy or of the paste is never fatal:
\* the fragment's text is in the transcript and the worker goes on to
\* task_done() for the utterance, and the session-end copy of the full
\* transcript never ends main() with an exception.
C14_FragmentKept(r) ==
    /\ \A i \in 1..Len(r.stdout) :
           r.stdout[i] # SP
               => \E j \in 1..Len(accumulated_text) :
                      accumulated_text[j] = r.stdout[i]
    /\ \/ (cur.seq = r.seq /\ pc_w = "task_done")
       \/ TimesDone(r.seq) = 1
C14_OutputFailureNeverFatal ==
    /\ \A i \in 1..Len(proc_log) :
           proc_log[i].io # "ok" => C14_FragmentKept(proc_log[i])
    /\ pc_main # "crashed"

\* C15: speech 1.0 s, silence 0.7 s, speech 1.0 s, then the session end.
\* Once every chunk has been processed exactly one utterance has been put,
\* by the pause detection: the first run and the silence up to the chunk
\* at which the threshold is reached.  finalize() puts the second: the
\* rest.  They are processed in that order: the worker is there for
\* whatever is still unfinished, and once the drain has returned the
\* transcript is text1, one space, text2.
C15_PauseChunks == ((PAUSE_THRESHOLD_MS + ChunkMs - 1) \div ChunkMs) + 1
C15_First == ChunkRange(1, SpeechChunks + C15_PauseChunks)
C15_Second == ChunkRange(SpeechChunks + C15_PauseChunks + 1, SplitChunks)
C15_Text(i) == Trimmed(proc_log[i].stdout)
C15_LongSilenceSplits ==
    (n_chunks = SplitChunks /\ pc_cb = "idle" /\ ~seg.late) =>
        /\ ~seg.closed => (Len(enq_log) = 1 /\ enq_log[1].samples = C15_First)
        /\ seg.closed =>
              /\ Len(enq_log) = 2
              /\ enq_log[1].samples = C15_First
              /\ enq_log[2].samples = C15_Second
        /\ unfinished_tasks > 0 => pc_w # "exited"
        /\ IsPrefix(done_log, <<1, 2>>)
        /\ IsPrefix([i \in 1..Len(proc_log) |-> proc_log[i].seq], <<1, 2>>)
        /\ pc_main \in {"unmark", "publish", "done", "crashed"} =>
              /\ Len(proc_log) = 2
              /\ (Len(C15_Text(1)) > 0 /\ Len(C15_Text(2)) > 0)
                    => accumulated_text
                         = C15_Text(1) \o <<SP>> \o C15_Text(2)
              /\ Len(C15_Text(1)) = 0 => accumulated_text = C15_Text(2)
              /\ Len(C15_Text(2)) = 0 => accumulated_text = C15_Text(1)

\* C16: speech 1.0 s, silence 0.3 s, speech 1.0 s, then the session end.
\* The silence never triggers the pause detection: nothing is put before
\* finalize(), the first speech chunk of the second run clears
\* silence_start, and when the session ends after the last chunk
\* finalize() puts exactly one utterance, holding every chunk of the span.
C16_ShortSilenceKeepsOne ==
    /\ ~seg.closed => Len(enq_log) = 0
    /\ Len(enq_log) <= 1
    /\ (pc_cb = "idle" /\ n_chunks > SpeechChunks + ShortSilence)
          => silence_start = NONE
    /\ (n_chunks = MergeChunks /\ pc_cb = "idle" /\ ~seg.late) =>
          /\ audio_buffer = ChunkRange(1, MergeChunks)
          /\ seg.closed =>
                /\ Len(enq_log) = 1
                /\ enq_log[1].samples = ChunkRange(1, MergeChunks)

C16_Witness ==
    /\ pc_main = "done"
    /\ n_chunks = MergeChunks
    /\ ~seg.late
    /\ Len(enq_log) = 1
    /\ Len(enq_log[1].samples) = 2 * SpeechChunks + ShortSilence
    /\ Len(done_log) = 1

\* C17: the session-end step copies the full transcript to the clipboard
\* and pastes nothing, and it comes after the drain, so that when the
\* session has ended every utterance put on the queue during the session
\* has been processed and the text on the clipboard holds what the
\* session transcribed.
C17_PublishStep ==
    [][(pc_main = "publish" /\ pc_main' = "done")
         => /\ pasted' = pasted
            /\ Len(accumulated_text) > 0 => clipboard' = accumulated_text]_vars
C17_AllProcessedAtEnd ==
    pc_main = "done" =>
        /\ \A i \in 1..Len(enq_log) : TimesDone(i) = 1
        /\ Len(transcription_queue) = 0
        /\ cur = NoItem
C17_RepublishAfterDrain == C17_PublishStep /\ []C17_AllProcessedAtEnd

\* C18: every invocation of a session started with --lang=L uses L; once
\* a language is stored it stays, and once the language of an invocation
\* is known every later one is made with the same.  The language of an
\* invocation is known when it was given to the engine, and also when the
\* engine was run with "auto" and returned text: it has then detected the
\* language (whisper reports it on stderr), and no later invocation is
\* made with "auto".
C18_Known(r) ==
    \/ r.language # "auto"
    \/ (~r.raised /\ r.rc = 0 /\ Len(Trimmed(r.stdout)) > 0)
C18_ExplicitOrStored ==
    /\ \A i \in 1..Len(proc_log) :
           /\ argv_lang # "auto" => proc_log[i].language = argv_lang
           /\ \A j \in i..Len(proc_log) :
                  proc_log[i].language # "auto"
                      => proc_log[j].language = proc_log[i].language
    /\ (pc_w = "engine" /\ detected_language # "None")
          => cmd.language = detected_language
C18_LanguageSticky ==
    /\ C18_ExplicitOrStored
    /\ \A i \in 1..Len(proc_log) :
           C18_Known(proc_log[i]) =>
               /\ \A j \in (i + 1)..Len(proc_log) :
                      proc_log[j].language # "auto"
               /\ pc_w = "engine" => cmd.language # "auto"

\* C19: an invocation gets a prompt iff the transcript is not empty; the
\* words of the prompt are the last 100 words of the transcript, all of
\* them when there are at most 100, and then the prompt is the transcript
\* itself; otherwise the words are joined by single spaces.  The prompt
\* never has more than 100 words.
C19_LastWords(ws, n) ==
    IF Len(ws) <= n THEN ws ELSE SubSeq(ws, Len(ws) - n + 1, Len(ws))
C19_SingleSpaced(s) ==
    /\ Len(s) > 0 => (s[1] # SP /\ s[Len(s)] # SP)
    /\ \A i \in 1..(Len(s) - 1) : ~(s[i] = SP /\ s[i + 1] = SP)
C19_PromptIsLastWords ==
    pc_w = "engine" =>
        /\ cmd.has_prompt <=> Len(accumulated_text) > 0
        /\ ~cmd.has_prompt => cmd.prompt = <<>>
        /\ cmd.has_prompt =>
              /\ WordsOf(cmd.prompt)
                   = C19_LastWords(WordsOf(accumulated_text), 100)
              /\ Len(WordsOf(cmd.prompt)) <= 100
              /\ Len(WordsOf(accumulated_text)) <= 100
                    => cmd.prompt = accumulated_text
              /\ Len(WordsOf(accumulated_text)) > 100
                    => C19_SingleSpaced(cmd.prompt)

\* the third invocation of a session whose transcript has 101 words, the
\* first of them cut off
C19_Witness ==
    /\ pc_w = "engine"
    /\ Len(WordsOf(accumulated_text)) > 100
    /\ Len(WordsOf(cmd.prompt)) = 100
    /\ accumulated_text[1] = 1
    /\ Len(proc_log) = 2

\* C20: the WAV file of an utterance exists only while the utterance is
\* being processed: once _transcribe_audio has returned no file is left,
\* whatever the outcome, and none is left when the session ends.
C20_TempFileRemoved ==
    \A k \in temp_files : cur.seq = k /\ pc_w = "engine"

\* C21: for a result with non-empty text the fragment copied to the
\* clipboard and pasted is the text, preceded by exactly one space iff the
\* transcript was non-empty before the text was appended.
C21_Fragment(before, text) == IF Len(before) > 0 THEN <<SP>> \o text ELSE text
C21_LeadingSpaceIffAppended ==
    [][(pc_w = "engine" /\ pc_w' = "task_done")
         => LET r == proc_log'[Len(proc_log')]
                text == Trimmed(r.stdout)
                frag == C21_Fragment(accumulated_text, text)
            IN (~r.raised /\ Len(text) > 0) =>
                   /\ r.io # "copy_raises" => clipboard' = frag
                   /\ r.io = "ok" => pasted' = Append(pasted, frag)]_vars

\* a first fragment pasted bare, a later one with its leading space
C21_Witness ==
    /\ Len(pasted) = 2
    /\ pasted[1] = <<1>>
    /\ pasted[2] = <<SP, 3, SP, SP, 3>>
    /\ clipboard = pasted[2]

\* C22: the worker leaves its loop only when the stop has been requested,
\* finalize() has finished its put (or holds a buffer it will not put:
\* no speech in the session, or less than 0.5 s), and the queue is empty;
\* once it has left, nothing is waiting in the queue or still unfinished.
C22_WorkerExitsAfterFinalize ==
    /\ [][(pc_w # "exited" /\ pc_w' = "exited")
            => /\ ~recording
               /\ Len(transcription_queue) = 0
               /\ \/ seg.closed
                  \/ ~seg.spoken
                  \/ Len(audio_buffer) * CHUNK_SIZE * 1000
                        < MIN_DURATION_MS * SAMPLE_RATE]_vars
    /\ [](pc_w = "exited"
            => (Len(transcription_queue) = 0 /\ unfinished_tasks = 0))

\* C23: the speech buffer and the pause state are never used by two
\* threads at once: finalize() does not run while a callback that has
\* passed its `recording` test is inside add_audio.
C23_FinalizeNotDuringCallback ==
    [][(pc_main = "finalize" /\ pc_main' = "join") => pc_cb # "body"]_vars

\* C24: the callback puts an utterance only on a chunk for which
\* silence_start was set, at least 600 ms ago, by the first silent chunk
\* after the most recent speech chunk, with speech detected since the last
\* reset; the utterance is the buffer with that chunk, and the same step
\* leaves the buffer empty, speech_detected false and silence_start unset.
\* A silent chunk never moves a silence_start that is set.
C24_CallbackPut ==
    /\ pc_cb = "body" /\ pc_cb' = "idle"
    /\ Len(enq_log') = Len(enq_log) + 1
C24_PauseTriggerConditions ==
    /\ [][C24_CallbackPut =>
            /\ silence_start # NONE
            /\ clock - silence_start >= PAUSE_THRESHOLD_MS
            /\ speech_detected
            /\ ~seg.closed => (silence_start = seg.sil /\ seg.has_speech)
            /\ enq_log'[Len(enq_log')].samples
                 = Append(audio_buffer, n_chunks)
            /\ audio_buffer' = <<>> /\ chunk_buffer' = <<>>
            /\ ~speech_detected' /\ silence_start' = NONE]_vars
    /\ [][(silence_start # NONE /\ silence_start' # NONE)
            => silence_start' = silence_start]_vars

\* the pause detection has just put an utterance
C24_Witness ==
    /\ Len(enq_log) = 1
    /\ ~seg.closed
    /\ pc_cb = "idle"
    /\ audio_buffer = <<>>
    /\ ~speech_detected
    /\ silence_start = NONE

\* C27: at most one engine invocation is in flight: a command is out only
\* while the worker is inside its engine call, and the call for an
\* utterance starts only when no command is out and task_done() has been
\* called for every utterance taken from the queue before it.
C27_OneInvocationInFlight ==
    /\ [](cmd # NoCmd <=> pc_w = "engine")
    /\ [][(pc_w # "engine" /\ pc_w' = "engine")
            => /\ cmd = NoCmd
               /\ \A j \in 1..(cur.seq - 1) : TimesDone(j) = 1
               /\ Len(proc_log) <= cur.seq - 1]_vars

\* the call for the second utterance is running, the first is done
C27_Witness ==
    /\ pc_w = "engine"
    /\ cur.seq = 2
    /\ done_log = <<1>>
    /\ Len(proc_log) = 1
    /\ Len(transcription_queue) = 1

\* C28: no utterance is given to the engine more than once: the engine
\* results are for utterances of increasing number, task_done() is called
\* at most once for each, a call starts only for an utterance that has no
\* result and is not done, no step of the worker puts anything on the
\* queue, and no two utterances put on the queue are the same audio.
C28_ProcessedOnce ==
    /\ [](\A i, j \in 1..Len(proc_log) :
              i < j => proc_log[i].seq < proc_log[j].seq)
    /\ [](\A k \in 1..Len(enq_log) : TimesDone(k) <= 1)
    /\ [](\A i, j \in 1..Len(enq_log) :
              i < j => enq_log[i].samples # enq_log[j].samples)
    /\ [][(pc_w # "engine" /\ pc_w' = "engine")
            => /\ TimesDone(cur.seq) = 0
               /\ \A i \in 1..Len(proc_log) : proc_log[i].seq # cur.seq]_vars
    /\ [][pc_w' # pc_w
            => /\ enq_log' = enq_log
               /\ Len(transcription_queue') <= Len(transcription_queue)
               /\ unfinished_tasks' <= unfinished_tasks]_vars

\* an invocation that raised and one without text, each followed by the
\* next utterance
C28_Witness ==
    /\ Len(proc_log) = 3
    /\ proc_log[1].raised
    /\ ~proc_log[2].raised /\ Len(Trimmed(proc_log[2].stdout)) = 0
    /\ proc_log[3].seq = 3
    /\ done_log = <<1, 2, 3>>

\* C29: when the engine returns no text (empty or whitespace-only
\* output), the transcript and the clipboard stay as they were and
\* nothing is pasted.
C29_EmptyResultChangesNothing ==
    [][(pc_w = "engine" /\ pc_w' = "task_done")
         => LET r == proc_log'[Len(proc_log')]
            IN (~r.raised /\ Len(Trimmed(r.stdout)) = 0)
                   => UNCHANGED <<accumulated_text, clipboard, pasted>>]_vars

\* a whitespace-only output after a first fragment was pasted
C29_Witness ==
    /\ Len(proc_log) = 2
    /\ proc_log[1].stdout = <<SP, 1>>
    /\ proc_log[1].io = "ok"
    /\ proc_log[2].stdout = <<SP>>
    /\ accumulated_text = <<1>>
    /\ clipboard = <<1>>
    /\ pasted = <<(<<1>>)>>

\* C25: a chunk on which the model raises is classified by the energy
\* test, the callback goes on with the segmentation of that chunk, the
\* model stays in place, and every chunk that arrives while the model is
\* there is given to the model, also the one after a raise.
C25_CallbackStep == pc_cb = "body" /\ pc_cb' = "idle"
C25_FallbackPerChunk ==
    /\ [](vad_last.raised
            => (vad_last.has_speech <=> vad_last.energy > 10))
    /\ [][vad_model = "loaded" => vad_model' = "loaded"]_vars
    /\ [][(C25_CallbackStep /\ vad_model = "loaded")
            => /\ vad_last'.loaded
               /\ ~vad_last'.raised
                     => (vad_last'.has_speech <=> vad_last'.prob > 60)]_vars
    /\ [][(C25_CallbackStep /\ vad_last'.raised)
            => /\ speech_detected_in_session'
                    = (speech_detected_in_session \/ vad_last'.has_speech)
               /\ audio_buffer' = Append(audio_buffer, n_chunks)]_vars

\* the model raised on the first chunk; the second is classified by the
\* model again, as speech
C25_Witness ==
    /\ vad_last.after_raise
    /\ vad_last.loaded /\ ~vad_last.raised
    /\ vad_last.prob = 61 /\ vad_last.has_speech
    /\ seg.spoken
    /\ vad_last.n = 2
    /\ Len(audio_buffer) = 2
    /\ speech_detected /\ silence_start = NONE

\* C26: the callback never waits for the model: while the load is running
\* or after it failed every chunk is classified by the energy test and
\* segmented; once the load has succeeded every chunk is given to the
\* model.
C26_EnergyUntilLoaded ==
    /\ []((vad_last.n > 0 /\ ~vad_last.loaded)
            => (vad_last.has_speech <=> vad_last.energy > 10))
    /\ [][(C25_CallbackStep /\ vad_load # "loaded")
            => /\ ~vad_last'.loaded
               /\ audio_buffer' = Append(audio_buffer, n_chunks)]_vars
    /\ [][(C25_CallbackStep /\ vad_load = "loaded")
            => /\ vad_last'.loaded
               /\ ~vad_last'.raised
                     => (vad_last'.has_speech <=> vad_last'.prob > 60)]_vars
    /\ []((pc_main = "loop" /\ recording /\ pc_cb = "idle"
              /\ n_chunks < VadChunks) => ENABLED CbEnter(VadChunks))
    /\ [](pc_cb = "body" /\ pc_main \notin {"done", "crashed"}
            => ENABLED (\E energy \in Energies, prob \in Probs,
                           raises \in BOOLEAN : CbVad(energy, prob, raises)))
    /\ [][vad_load = "failed" => (vad_load' = "failed" /\ vad_model' = "None")]_vars

\* a session whose first chunk was taken as speech by its energy while
\* the model was loading, and whose last chunk was silent for the model
C26_Witness ==
    /\ pc_main = "done"
    /\ vad_load = "loaded"
    /\ vad_last.loaded /\ ~vad_last.raised /\ ~vad_last.has_speech
    /\ vad_last.n = VadChunks
    /\ Len(enq_log) = 1 /\ Len(done_log) = 1

\* C30: the key listener is stopped by main's step after the drain and
\* the clearing of finalizing, never earlier, and on every path a session
\* that has ended has stopped it; its handler clears the recording flag
\* when it is set and never sets it, so a press with the flag cleared
\* changes nothing.
C30_ListenerStoppedAfterDrain ==
    /\ [][(key_listener # "stopped" /\ key_listener' = "stopped")
            => (pc_main = "publish" /\ seg.closed /\ ~recording
                  /\ ~finalizing)]_vars
    /\ [](key_listener = "stopped" <=> pc_main \in {"done", "crashed"})
    /\ [](pc_main \in {"loop", "mark", "finalize", "join", "unmark"}
            => key_listener \in {"new", "running"})
    /\ []((pc_main = "loop" /\ recording) => key_listener = "running")
    /\ [][(recording /\ ~recording' /\ pc_main' = pc_main /\ pc_main = "loop")
            => (key_listener = "running"
                  /\ UNCHANGED <<finalizing, queueVars, procVars, textVars,
                                 histVars, pc_cb, pc_w, key_listener>>)]_vars
    /\ [][(~recording /\ pc_main # "start") => ~recording']_vars

\* a session stopped by the key has drained one utterance and ended
C30_Witness ==
    /\ pc_main = "done"
    /\ key_listener = "stopped"
    /\ Len(done_log) = 1 /\ Len(proc_log) = 1
    /\ unfinished_tasks = 0

\* C31: whenever the energy test classifies a chunk (no model, or the
\* model raised), the chunk is speech iff its RMS energy exceeds 0.01,
\* whatever the pause state, the clock and the earlier chunks are; the
\* segmenter is given exactly that answer.
C31_EnergyOnly ==
    /\ [](vad_last.energy # NONE
            => (vad_last.has_speech <=> vad_last.energy > 10))
    /\ [][(pc_cb = "body" /\ pc_cb' = "idle" /\ vad_last'.energy # NONE)
            => /\ vad_last'.n = n_chunks
               /\ seg'.spoken = (seg.spoken \/ vad_last'.energy > 10)
               /\ speech_detected_in_session'
                    = (speech_detected_in_session \/ vad_last'.energy > 10)
               /\ vad_last'.energy <= 10
                     => silence_start'
                          = IF speech_detected /\ silence_start = NONE
                            THEN clock ELSE silence_start]_vars

\* a chunk of zeros taken as silence while a silence is being timed, with
\* no model loaded
C31_Witness ==
    /\ ~vad_last.loaded
    /\ vad_last.energy = 0 /\ ~vad_last.has_speech
    /\ vad_last.n >= 3
    /\ speech_detected
    /\ silence_start # NONE /\ silence_start < clock

\* C32: every utterance put on the queue holds a chunk classified as
\* speech since the buffer was last reset, whether the pause detection
\* puts it or finalize() does.
C32_UtteranceHoldsSpeech ==
    [][(Len(enq_log') > Len(enq_log) /\ ~seg.closed)
         => seg.has_speech]_vars

\* C33: once finalize() has returned nothing is put on the queue any
\* more.
C33_NoPutAfterFinalize ==
    [][seg.closed => enq_log' = enq_log]_vars

\* C34: after the drain the worker leaves its loop: once main has cleared
\* finalizing the worker has left, or is at the one place of its loop
\* from which it still can (the test of the queue, after it has read
\* finalizing as set), or was never started.
C34_WorkerLeavesLoop ==
    pc_main \in {"publish", "done", "crashed"}
        => pc_w \in {"exited", "chk_empty", "off"}
====
